---- MODULE Spec2Model ----
(***************************************************************************)
(* Model of sparsam/dataset.py: BaseSet (the transform pipeline) and       *)
(* ImageSet (the path-based image source).                                 *)
(*                                                                         *)
(* Python values are encoded as follows.                                   *)
(*   - An optional value is a sequence of length 0 (None) or 1 (the value).*)
(*   - A pipeline value is a record [list, views]: list tells whether the  *)
(*     Python object is a list; views holds its elements (one element for  *)
(*     a single image or tensor).                                          *)
(*   - A view is a record [type, w, h, via, id, aug, norm]: type is        *)
(*     "image" (PIL image) or "tensor"; w, h the spatial size; via the     *)
(*     decode branch; id the position the producer gave it; aug the        *)
(*     augmentation that produced it ("None" when none); norm the          *)
(*     sequence of normalizers applied to it.                              *)
(*   - Raw labels are the integers 1..MaxLabel, ordered as Python orders   *)
(*     the label values.                                                   *)
(*   - Indices are 0-based as in Python; sequences are 1-based.            *)
(***************************************************************************)
EXTENDS Integers, Sequences, FiniteSets, TLC

\* Largest number of paths / labels handed to the constructor.
MaxItems == 2
\* Raw label values are 1..MaxLabel.
MaxLabel == 2
\* Target sizes are drawn from 1..MaxDim; native sizes lie above MaxDim.
MaxDim == 2
\* Largest number of views of a multi-view item.
MaxViews == 2

VARIABLES
  args,               \* the constructor's arguments, as given (never changes)
  subclass,           \* the concrete class: "ImageSet" or "Other"
  img_paths,          \* self.img_paths
  labels,             \* self.labels
  class_names,        \* self.class_names
  img_size,           \* self.img_size
  data_augmentation,  \* self.data_augmentation
  normalize,          \* self.normalize
  lastSet,            \* argument of the latest set_data_augmentation, or the constructor's
  pc,                 \* position of the thread inside __getitem__
  index,              \* __getitem__'s index argument
  img,                \* __getitem__'s local img
  label,              \* __getitem__'s local label
  exc,                \* the exception the retrieval raised ("" when none)
  trace               \* the calls made by the retrieval in flight, in order

config == <<subclass, img_paths, labels, class_names, img_size, normalize>>
locals == <<pc, index, img, label, exc, trace>>
vars == <<args, subclass, img_paths, labels, class_names, img_size,
          data_augmentation, normalize, lastSet, pc, index, img, label, exc, trace>>

----------------------------------------------------------------------------
\* Python values

None == <<>>
Some(x) == <<x>>

\* bool(x) for an optional sequence: None and the empty sequence are falsy.
Truthy(opt) == opt # None /\ Len(opt[1]) > 0

IntV(n) == [kind |-> "int", n |-> n]
TupleV(a, b) == [kind |-> "tuple", w |-> a, h |-> b]
NoSize == [kind |-> "None"]

NoValue == [list |-> FALSE, views |-> <<>>]
Single(v) == [list |-> FALSE, views |-> <<v>>]
List(vs) == [list |-> TRUE, views |-> vs]

View(type, w, h, via, id) ==
  [type |-> type, w |-> w, h |-> h, via |-> via, id |-> id, aug |-> "None", norm |-> <<>>]

Call(op, fn, arg, out) == [op |-> op, fn |-> fn, arg |-> arg, out |-> out]

RECURSIVE SortedSeq(_)
\* sorted(list(S)) for a set of label values
SortedSeq(S) ==
  IF S = {} THEN <<>>
  ELSE LET m == CHOOSE x \in S : \A y \in S : x <= y
       IN <<m>> \o SortedSeq(S \ {m})

Range(s) == {s[j] : j \in 1..Len(s)}

\* sorted(list(set(labels)))
sorted_unique(ls) == SortedSeq(Range(ls))

FirstPos(s, x) == CHOOSE j \in 1..Len(s) : s[j] = x /\ \A k \in 1..(j - 1) : s[k] # x

list_index_one_based(s, x) ==
  IF \E j \in 1..Len(s) : s[j] = x THEN Some(FirstPos(s, x)) ELSE None

list_index_or_zero(s, x) ==
  IF \E j \in 1..Len(s) : s[j] = x THEN Some(FirstPos(s, x) - 1) ELSE Some(0)

\* list.index(x): the 0-based position of the first element equal to x,
\* None when x is not in the list (Python raises ValueError).
list_index(s, x) ==
  IF \E j \in 1..Len(s) : s[j] = x THEN Some(FirstPos(s, x) - 1) ELSE None

----------------------------------------------------------------------------
\* Constructors

\* BaseSet.__init__: normalize=True selects the default min-max normalizer.
BaseSet_normalize(n) == IF n = "True" THEN "min_max_normalize_tensor" ELSE n

\* ImageSet.__init__, class_names
ImageSet_class_names(cn, ls) ==
  IF Truthy(cn) THEN cn
  ELSE IF Truthy(ls) THEN Some(sorted_unique(ls[1]))
  ELSE None

\* ImageSet.__init__, img_size
ImageSet_img_size(sz) ==
  IF sz.kind # "None" /\ sz.kind # "tuple" THEN TupleV(sz, sz) ELSE sz

\* The file behind the k-th path: odd positions are DICOM files, even ones
\* general raster files; native sizes differ per file and from every target.
File(k) == [suffix |-> IF k % 2 = 1 THEN ".dcm" ELSE ".png",
            w |-> MaxDim + k, h |-> MaxDim + 2 * k]
Paths(n) == [k \in 1..n |-> File(k)]

RECURSIVE SeqsUpTo(_, _)
SeqsUpTo(S, n) ==
  IF n = 0 THEN {<<>>}
  ELSE LET shorter == SeqsUpTo(S, n - 1)
       IN shorter \cup {Append(s, x) : s \in {t \in shorter : Len(t) = n - 1}, x \in S}

LabelValues == 1..MaxLabel
PathArgs == {Paths(n) : n \in 0..MaxItems}
LabelArgs == {None} \cup {Some(s) : s \in SeqsUpTo(LabelValues, MaxItems)}
ClassNameArgs == {None, Some(<<>>), Some(<<1>>), Some(<<1, 2>>), Some(<<2, 1>>)}
SizeArgs == {NoSize, IntV(MaxDim), TupleV(IntV(1), IntV(MaxDim)), TupleV(IntV(MaxDim), IntV(1))}
AugArgs == {"None", "flip", "multicrop"}
NormalizeArgs == {"True", "False", "custom"}

ImageSetArgs ==
  [img_paths : PathArgs, labels : LabelArgs, img_size : SizeArgs,
   data_augmentation : AugArgs, class_names : ClassNameArgs, normalize : NormalizeArgs]

\* A subclass other than ImageSet takes only BaseSet's arguments.
OtherArgs ==
  [img_paths : {<<>>}, labels : {None}, img_size : {NoSize},
   data_augmentation : AugArgs, class_names : {None}, normalize : NormalizeArgs]

Idle ==
  /\ pc = "idle"
  /\ index = 0
  /\ img = NoValue
  /\ label = None
  /\ exc = ""
  /\ trace = <<>>

Init ==
  /\ \/ subclass = "ImageSet" /\ args \in ImageSetArgs
     \/ subclass = "Other" /\ args \in OtherArgs
  /\ data_augmentation = args.data_augmentation
  /\ lastSet = args.data_augmentation
  /\ normalize = BaseSet_normalize(args.normalize)
  /\ img_paths = args.img_paths
  /\ labels = args.labels
  /\ class_names = ImageSet_class_names(args.class_names, args.labels)
  /\ img_size = ImageSet_img_size(args.img_size)
  /\ Idle

----------------------------------------------------------------------------
\* ImageSet._get_image_label_pair

\* Image.fromarray(ds.pixel_array, 'RGB') for a .dcm path, otherwise
\* Image.open(path).convert('RGB'): a PIL image of the file's native size.
decode_file(path) ==
  View("image", path.w, path.h,
       IF path.suffix = ".dcm" THEN "pydicom.dcmread" ELSE "Image.open", 0)

resize_transposed(im, size) == [im EXCEPT !.w = size.h.n, !.h = size.w.n]

\* img.resize(size, Image.NEAREST): PIL sizes are (width, height).
resize(im, size) == [im EXCEPT !.w = size.w.n, !.h = size.h.n]

Result(e, v, l) == [exc |-> e, img |-> v, label |-> l]

\* Lines 97-102: the label, or the IndexError of labels[index], or the
\* ValueError of class_names.index(label).
resolve_label(i) ==
  IF labels # None
  THEN IF i >= Len(labels[1]) THEN Result("IndexError", NoValue, None)
       ELSE LET raw == labels[1][i + 1]
            IN IF class_names # None
               THEN LET found == list_index(class_names[1], raw)
                    IN IF found = None THEN Result("ValueError", NoValue, None)
                       ELSE Result("", NoValue, found)
               ELSE Result("", NoValue, Some(raw))
  ELSE Result("", NoValue, Some(0))

ImageSet_get_image_label_pair(i) ==
  IF i >= Len(img_paths) THEN Result("IndexError", NoValue, None)
  ELSE LET path == img_paths[i + 1]
           decoded == decode_file(path)
           sized == IF img_size.kind # "None" THEN resize(decoded, img_size) ELSE decoded
           lab == resolve_label(i)
       IN IF lab.exc # "" THEN lab ELSE Result("", Single(sized), lab.label)

\* BaseSet._get_image_label_pair (abstract): another subclass returns an
\* unnormalized image, a tensor, or a list of either, with a label or None.
AbstractView(j) ==
  View(IF j % 2 = 1 THEN "image" ELSE "tensor", MaxDim + j, MaxDim + j, "abstract", j)
AbstractValues ==
  {Single(AbstractView(1)), Single(AbstractView(2))}
    \cup {List([j \in 1..k |-> AbstractView(j)]) : k \in 1..MaxViews}
Other_get_image_label_pair(i) ==
  {Result("", v, l) : v \in AbstractValues, l \in {None, Some(0)}}

get_image_label_pair(i) ==
  IF subclass = "ImageSet" THEN {ImageSet_get_image_label_pair(i)}
  ELSE Other_get_image_label_pair(i)

----------------------------------------------------------------------------
\* Caller-supplied augmentations (callables image-or-list -> image-or-list)

\* A transform that keeps the shape of its argument and marks every view.
flip(v) == [v EXCEPT !.views = [j \in 1..Len(v.views) |-> [v.views[j] EXCEPT !.aug = "flip"]]]

\* A multi-crop transform: a list of MaxViews crops of the first view, the
\* even ones already converted to tensors.
multicrop(v) ==
  List([j \in 1..MaxViews |->
         [v.views[1] EXCEPT !.id = j, !.aug = "multicrop",
                            !.type = IF j % 2 = 0 THEN "tensor" ELSE @]])

call_augmentation(fn, v) == IF fn = "flip" THEN flip(v) ELSE multicrop(v)

----------------------------------------------------------------------------
\* BaseSet._normalize and the normalization stage of BaseSet.__getitem__

\* bool(self.normalize)
normalizer_set(nrm) == nrm # "False" /\ nrm # "None"

\* torchvision's to_tensor: an image becomes a tensor of the same size.
to_tensor(view) == [view EXCEPT !.type = "tensor"]

apply_normalizer(view, nrm) == [view EXCEPT !.norm = Append(@, nrm)]

_normalize_unconverted(view, nrm) ==
  IF normalizer_set(nrm) THEN apply_normalizer(view, nrm) ELSE view

_normalize_twice(view, nrm) ==
  LET t == IF view.type # "tensor" THEN to_tensor(view) ELSE view
  IN IF normalizer_set(nrm) THEN apply_normalizer(apply_normalizer(t, nrm), nrm) ELSE t

_normalize(view, nrm) ==
  LET t == IF view.type # "tensor" THEN to_tensor(view) ELSE view
  IN IF normalizer_set(nrm) THEN apply_normalizer(t, nrm) ELSE t

normalize_stage_first_only(v, nrm) ==
  IF v.list
  THEN List([j \in 1..Len(v.views) |-> IF j = 1 THEN _normalize(v.views[j], nrm) ELSE v.views[j]])
  ELSE Single(_normalize(v.views[1], nrm))

\* Lines 36-39: a list is normalized view by view, anything else once.
normalize_stage(v, nrm) ==
  IF v.list
  THEN List([j \in 1..Len(v.views) |-> _normalize(v.views[j], nrm)])
  ELSE Single(_normalize(v.views[1], nrm))

\* The _normalize calls of lines 36-39, in the order they are made.
normalize_calls(v, out) ==
  [j \in 1..Len(v.views) |-> Call("_normalize", "", Single(v.views[j]), Single(out.views[j]))]

----------------------------------------------------------------------------
\* Operations

stage_after_normalize_first(p, augment) ==
  IF p = "l34" THEN "l36"
  ELSE IF p = "l36" THEN (IF augment THEN "l35" ELSE "returned")
  ELSE "returned"

\* The order of the statements of __getitem__: after the decode step (l34)
\* the test of line 34 leads to the call of line 35 or past it, the call
\* leads to the normalization of lines 36-39, and that to the return.
stage_after(p, augment) ==
  IF p = "l34" THEN (IF augment THEN "l35" ELSE "l36")
  ELSE IF p = "l35" THEN "l36"
  ELSE "returned"

\* Line 33 of __getitem__: the decode step, or the exception it raises.
GetItem(i) ==
  /\ pc = "idle"
  /\ \E r \in get_image_label_pair(i) :
       /\ index' = i
       /\ exc' = r.exc
       /\ img' = r.img
       /\ label' = r.label
       /\ pc' = IF r.exc = "" THEN "l34" ELSE "raised"
       /\ trace' = <<Call("_get_image_label_pair", r.exc, NoValue, r.img)>>
  /\ UNCHANGED <<args, config, data_augmentation, lastSet>>

\* Line 34: if self.data_augmentation
TestAugmentation ==
  /\ pc = "l34"
  /\ pc' = stage_after(pc, data_augmentation # "None")
  /\ trace' = Append(trace, Call("test", data_augmentation, img, img))
  /\ UNCHANGED <<args, config, data_augmentation, lastSet, index, img, label, exc>>

\* Line 35: img = self.data_augmentation(img); the attribute is read again.
CallAugmentation ==
  /\ pc = "l35"
  /\ IF data_augmentation = "None"
     THEN /\ pc' = "raised"
          /\ exc' = "TypeError"
          /\ img' = NoValue
          /\ label' = None
          /\ trace' = Append(trace, Call("data_augmentation", "None", img, NoValue))
     ELSE /\ pc' = stage_after(pc, TRUE)
          /\ img' = call_augmentation(data_augmentation, img)
          /\ trace' = Append(trace, Call("data_augmentation", data_augmentation, img, img'))
          /\ UNCHANGED <<label, exc>>
  /\ UNCHANGED <<args, config, data_augmentation, lastSet, index>>

\* Lines 36-40: normalize and return (img, label).
Normalize ==
  /\ pc = "l36"
  /\ img' = normalize_stage(img, normalize)
  /\ trace' = trace \o normalize_calls(img, img')
  /\ pc' = stage_after(pc, data_augmentation # "None")
  /\ UNCHANGED <<args, config, data_augmentation, lastSet, index, label, exc>>

\* The caller takes the pair or the exception; the frame is gone.
Finish ==
  /\ pc \in {"returned", "raised"}
  /\ pc' = "idle"
  /\ index' = 0
  /\ img' = NoValue
  /\ label' = None
  /\ exc' = ""
  /\ trace' = <<>>
  /\ UNCHANGED <<args, config, data_augmentation, lastSet>>

set_data_augmentation_unless_none(fn) ==
  /\ data_augmentation' = IF fn = "None" THEN data_augmentation ELSE fn
  /\ lastSet' = fn
  /\ UNCHANGED <<args, config, locals>>

\* BaseSet.set_data_augmentation
set_data_augmentation(fn) ==
  /\ data_augmentation' = fn
  /\ lastSet' = fn
  /\ UNCHANGED <<args, config, locals>>

\* The setter called between retrievals, as the single-threaded use does.
SetAugmentation ==
  /\ pc = "idle"
  /\ \E fn \in AugArgs : set_data_augmentation(fn)

\* The setter called from another thread, at any point of a retrieval.
SetAugmentationConcurrently ==
  \E fn \in AugArgs : set_data_augmentation(fn)

Indices == 0..MaxItems

Retrieval ==
  \/ \E i \in Indices : GetItem(i)
  \/ TestAugmentation
  \/ CallAugmentation
  \/ Normalize
  \/ Finish

Next == Retrieval \/ SetAugmentation

Spec == Init /\ [][Next]_vars

NextConcurrent == Retrieval \/ SetAugmentationConcurrently

SpecConcurrent == Init /\ [][NextConcurrent]_vars

----------------------------------------------------------------------------
\* Observations on the retrieval in flight

\* ImageSet.__len__
ImageSet_len == Len(img_paths)

Positions(op) == {k \in 1..Len(trace) : trace[k].op = op}
AugmentationCalls == Positions("data_augmentation")
NormalizeCalls == Positions("_normalize")

\* The value the decode step returned to __getitem__.
Decoded == trace[1].out

\* The value that enters lines 36-39.
AfterAugmentation ==
  IF AugmentationCalls = {} THEN Decoded
  ELSE trace[CHOOSE k \in AugmentationCalls : TRUE].out

\* The augmentation the retrieval invoked, "None" when it invoked none.
AppliedAugmentation ==
  IF AugmentationCalls = {} THEN "None"
  ELSE trace[CHOOSE k \in AugmentationCalls : TRUE].fn

PastDecode == pc \in {"l34", "l35", "l36", "returned"}

RawLabel == labels[1][index + 1]

----------------------------------------------------------------------------
\* Claims

\* C1: for a valid index of an ImageSet, the label of a retrieval is 0 when
\* labels is None, the index of labels[i] in class_names when both are set,
\* and labels[i] itself when labels is set and class_names is not.
C1_LabelRule ==
  (subclass = "ImageSet" /\ PastDecode /\ index < ImageSet_len) =>
    /\ labels = None => label = Some(0)
    /\ labels # None => index < Len(labels[1])
    /\ (labels # None /\ class_names # None) =>
         \E j \in 1..Len(class_names[1]) :
           /\ label = Some(j - 1)
           /\ class_names[1][j] = RawLabel
           /\ \A k \in 1..(j - 1) : class_names[1][k] # RawLabel
    /\ (labels # None /\ class_names = None) => label = Some(RawLabel)

C1_Witness ==
  /\ subclass = "ImageSet"
  /\ pc = "returned"
  /\ index = 1
  /\ labels = Some(<<2, 1>>)
  /\ class_names = Some(<<2, 1>>)
  /\ label = Some(1)

\* C2: the stages of a retrieval run in the order decode, augment,
\* normalize: the decode call is first, every augmentation call precedes
\* every _normalize call, _normalize only receives the augmentation's
\* output, never a normalized view, and each returned view went through
\* _normalize and the configured normalizer exactly once.
C2_StageOrder ==
  /\ Len(trace) >= 1 => trace[1].op = "_get_image_label_pair"
  /\ \A a \in AugmentationCalls : \A n \in NormalizeCalls : a < n
  /\ \A n \in NormalizeCalls :
       /\ trace[n].arg.views[1].norm = <<>>
       /\ trace[n].arg.views[1].aug = AppliedAugmentation
  /\ pc = "returned" =>
       /\ lastSet # "None" => AugmentationCalls # {}
       /\ Cardinality(NormalizeCalls) = Len(img.views)
       /\ \A j \in 1..Len(img.views) :
            /\ Cardinality({n \in NormalizeCalls : trace[n].out = Single(img.views[j])}) = 1
            /\ Len(img.views[j].norm) = IF normalizer_set(normalize) THEN 1 ELSE 0

C2_Witness ==
  /\ pc = "returned"
  /\ AppliedAugmentation = "multicrop"
  /\ normalize = "custom"
  /\ Len(img.views) = MaxViews
  /\ \A j \in 1..Len(img.views) : img.views[j].norm = <<"custom">>

\* C3: a retrieval that starts after the latest set_data_augmentation(fn)
\* (or after construction) applies exactly fn, and nothing when fn is None;
\* a step of a retrieval never changes the augmentation, and the setter
\* changes nothing else.
C3_Applied ==
  /\ data_augmentation = lastSet
  /\ pc \in {"l36", "returned"} =>
       /\ AppliedAugmentation = lastSet
       /\ \A j \in 1..Len(img.views) : img.views[j].aug = lastSet

C3_Steps ==
  /\ pc' # pc => data_augmentation' = data_augmentation
  /\ data_augmentation' # data_augmentation => UNCHANGED <<args, config, locals>>

C3_LatestAugmentation == [](C3_Applied) /\ [][C3_Steps]_vars

C3_Witness ==
  /\ pc = "returned"
  /\ args.data_augmentation = "multicrop"
  /\ lastSet = "flip"
  /\ AppliedAugmentation = "flip"
  /\ ~img.list

\* C4: the first element of every returned pair is a tensor or a list of
\* tensors, whatever the decode step and the augmentation returned and
\* whatever the normalizer setting.
C4_TensorOutput ==
  pc = "returned" =>
    /\ Len(img.views) >= 1
    /\ ~img.list => Len(img.views) = 1
    /\ \A j \in 1..Len(img.views) : img.views[j].type = "tensor"

C4_Witness ==
  /\ pc = "returned"
  /\ subclass = "Other"
  /\ normalize = "False"
  /\ img.list
  /\ \E j \in 1..Len(Decoded.views) : Decoded.views[j].type = "image"
  /\ \A j \in 1..Len(img.views) : img.views[j].type = "tensor"

\* C5: whenever labels is given to the constructor and class_names is not,
\* class_names is the sorted list of the unique values of labels.
C5_DerivedClassNames ==
  (subclass = "ImageSet" /\ args.labels # None /\ args.class_names = None) =>
    class_names = Some(sorted_unique(args.labels[1]))

\* C6: the image the decode step returns has exactly the configured size,
\* (n, n) for an integer n and (W, H) for a pair, in both format branches,
\* and the file's native size when no size is configured.
C6_ResizePostcondition ==
  (subclass = "ImageSet" /\ PastDecode) =>
    LET im == Decoded.views[1]
        file == img_paths[index + 1]
        sz == args.img_size
    IN /\ sz.kind = "int" => (im.w = sz.n /\ im.h = sz.n)
       /\ sz.kind = "tuple" => (im.w = sz.w.n /\ im.h = sz.h.n)
       /\ sz.kind = "None" => (im.w = file.w /\ im.h = file.h)

C6_Witness ==
  /\ subclass = "ImageSet"
  /\ pc = "l34"
  /\ args.img_size = TupleV(IntV(1), IntV(MaxDim))
  /\ Decoded.views[1].via = "pydicom.dcmread"
  /\ Decoded.views[1].w = 1
  /\ Decoded.views[1].h = MaxDim
  /\ img_paths[index + 1].w # 1

\* C7: in every state of an ImageSet, len() is len(paths) and, when labels
\* is present, len(paths) = len(labels), so that every index below len()
\* has a label to resolve.
C7_LengthsAgree ==
  (subclass = "ImageSet" /\ labels # None) =>
    /\ ImageSet_len = Len(labels[1])
    /\ \A i \in 0..(ImageSet_len - 1) : i < Len(labels[1])

\* C8: when labels[i] is not in class_names the retrieval of i raises
\* ValueError at the decode step: no pair and no fallback index is produced,
\* nothing runs after the failed step, and the instance is left unchanged.
MissingClass ==
  /\ subclass = "ImageSet"
  /\ pc # "idle"
  /\ index < ImageSet_len
  /\ labels # None
  /\ index < Len(labels[1])
  /\ class_names # None
  /\ \A j \in 1..Len(class_names[1]) : class_names[1][j] # RawLabel

C8_Raised ==
  MissingClass =>
    /\ pc = "raised"
    /\ exc = "ValueError"
    /\ img = NoValue
    /\ label = None
    /\ Len(trace) = 1

C8_Steps == pc' = "raised" => UNCHANGED <<args, config, data_augmentation>>

C8_MissingClassRaises == [](C8_Raised) /\ [][C8_Steps]_vars

C8_Witness ==
  /\ MissingClass
  /\ pc = "raised"
  /\ exc = "ValueError"
  /\ index = 1

\* C9: a list of k views entering normalization comes back as a list of k
\* elements, the j-th the normalization of the j-th view; any other value
\* is normalized once as a whole; the augmentation is called on the decoded
\* value as a whole.
Normalized(view) ==
  [view EXCEPT !.type = "tensor",
               !.norm = IF normalizer_set(normalize) THEN <<normalize>> ELSE <<>>]

C9_FanOut ==
  /\ \A a \in AugmentationCalls : trace[a].arg = Decoded
  /\ pc = "returned" =>
       LET pre == AfterAugmentation
           calls == SelectSeq(trace, LAMBDA c : c.op = "_normalize")
       IN /\ img.list = pre.list
          /\ Len(img.views) = Len(pre.views)
          /\ Len(calls) = Len(pre.views)
          /\ ~pre.list => Len(calls) = 1
          /\ \A j \in 1..Len(pre.views) :
               /\ img.views[j] = Normalized(pre.views[j])
               /\ calls[j].arg = Single(pre.views[j])

C9_Witness ==
  /\ pc = "returned"
  /\ subclass = "Other"
  /\ AugmentationCalls = {}
  /\ img.list
  /\ Len(img.views) = MaxViews
  /\ MaxViews >= 2
  /\ img.views[1].id = 1
  /\ img.views[2].id = 2

\* C10: under any interleaving of set_data_augmentation with a retrieval,
\* the retrieval never calls an absent augmentation and calls only the
\* value it tested.
C10_ConsistentAugmentation ==
  /\ exc # "TypeError"
  /\ \A k \in AugmentationCalls :
       \E t \in Positions("test") : t < k /\ trace[t].fn = trace[k].fn

====
